---- MODULE Spec2Model ----
(***************************************************************************)
(* Model of the iosify Sheet component (src/src/components/Sheet/index.tsx) *)
(* and of the throttle utility (src/unnamed/part_000).                      *)
(*                                                                         *)
(* Units.  Pointer positions (clientY) are whole pixels.  Times are whole  *)
(* milliseconds (Date.now()).  totalTime is kept in milliseconds, the code *)
(* keeps it in seconds (ms / 1000).  overlayOpacity is kept in units of    *)
(* 1/innerHeight (1 is OpacityOne, 0 is 0).  A translateY offset is kept in *)
(* units of 1/100 px, so that the 0.1 resistance and the 0.01 clamp of      *)
(* dragMove are exact.  null is the integer Null.                           *)
(***************************************************************************)
EXTENDS Integers, Sequences, FiniteSets, TLC

\* ------------------------------------------------------------------ bounds
MaxTime == 3
TickMs == 2
MaxDist == 2
MaxClock == 6
MaxDelay == 3
MaxCalls == 4
MaxRequests == 4

\* clientY values delivered by the input device
Positions == {0, 1, 11}

\* ------------------------------------------------------- program constants
innerHeight == 20
fastCloseThreshold == 500
MsPerSecond == 1000
Null == -1

OpacityOne == innerHeight

Abs(x) == IF x < 0 THEN -x ELSE x
Max(a, b) == IF a >= b THEN a ELSE b

\* JavaScript  v || d  on a value of type number | null: null and 0 are falsy
OrElse(v, d) == IF v = Null \/ v = 0 THEN d ELSE v

\* the style values written to the content element
TransformNone == [kind |-> "none", v |-> 0]
TransformOffscreen == [kind |-> "translateY100%", v |-> 0]
TranslateY(v) == [kind |-> "translateYpx", v |-> v]

EmptyDragState ==
  [startY |-> Null, currentY |-> Null, startTime |-> Null, isDragging |-> FALSE,
   direction |-> "null", totalDistance |-> 0, totalTime |-> 0]

NoRel == [passed |-> FALSE, direction |-> "null", far |-> FALSE, fast |-> FALSE,
          zeroTime |-> FALSE, decision |-> "none", setter |-> "none"]
NoMove == [passed |-> FALSE, dragDistance |-> 0]

VARIABLES
  dragState,        \* useState: the drag session
  overlayOpacity,   \* useState: overlay opacity
  isOpened,         \* the host's visibility flag (prop isOpened / setIsOpened)
  transform,        \* contentRef.current.style.transform
  transition,       \* contentRef.current.style.transition
  overflow,         \* document.body.style.overflow
  timeouts,         \* pending setTimeout callbacks, in scheduling order
  mousemoveListeners, \* document 'mousemove' listeners (captured dragState)
  mouseupListeners,   \* document 'mouseup' listeners (captured dragState)
  cleanup,          \* cleanup of the mounted listener effect (captured dragState)
  pending,          \* passive effects committed but not yet run
  now,              \* Date.now()
  last,             \* history: the last event handled and what it measured
  lastCall,         \* throttle: closure variable lastCall
  delay,            \* throttle: argument delay
  clock,            \* throttle: new Date().getTime()
  calls,            \* throttle: history of calls <<time, invoked>>
  body,             \* withPortal: the children of document.body, in order
  requests          \* withPortal: history of createDiv calls and what they returned

sheetVars == <<dragState, overlayOpacity, isOpened, transform, transition, overflow,
               timeouts, mousemoveListeners, mouseupListeners, cleanup, pending,
               now, last>>
throttleVars == <<lastCall, delay, clock, calls>>
portalVars == <<body, requests>>
vars == <<dragState, overlayOpacity, isOpened, transform, transition, overflow,
          timeouts, mousemoveListeners, mouseupListeners, cleanup, pending,
          now, last, lastCall, delay, clock, calls, body, requests>>

\* the component's state as one value, so that handlers compose
World ==
  [dragState |-> dragState, overlayOpacity |-> overlayOpacity, isOpened |-> isOpened,
   transform |-> transform, transition |-> transition, overflow |-> overflow,
   timeouts |-> timeouts, mousemoveListeners |-> mousemoveListeners,
   mouseupListeners |-> mouseupListeners, cleanup |-> cleanup, pending |-> pending,
   now |-> now, last |-> last, rendered |-> FALSE]

Commit(w) ==
  /\ dragState' = w.dragState
  /\ overlayOpacity' = w.overlayOpacity
  /\ isOpened' = w.isOpened
  /\ transform' = w.transform
  /\ transition' = w.transition
  /\ overflow' = w.overflow
  /\ timeouts' = w.timeouts
  /\ mousemoveListeners' = w.mousemoveListeners
  /\ mouseupListeners' = w.mouseupListeners
  /\ cleanup' = w.cleanup
  /\ pending' = w.pending
  /\ now' = w.now
  /\ last' = w.last

Event(op) == [op |-> op, rel |-> NoRel, move |-> NoMove, press |-> Null]

\* ------------------------------------------------------------ Sheet: drag
\* mutant: the new session is merged into the previous one
startDrag_merge(w, y) ==
  [w EXCEPT
     !.dragState = [w.dragState EXCEPT !.startY = y, !.currentY = Null,
                                       !.startTime = w.now, !.isDragging = TRUE,
                                       !.direction = "null"],
     !.transition = "unset",
     !.rendered = TRUE,
     !.last.press = y]

\* startDrag(y), lines 45-58
startDrag(w, y) ==
  [w EXCEPT
     !.dragState = [startY |-> y, currentY |-> Null, startTime |-> w.now,
                    isDragging |-> TRUE, direction |-> "null",
                    totalDistance |-> 0, totalTime |-> 0],
     !.transition = "unset",
     !.rendered = TRUE,
     !.last.press = y]

\* mutant: the upward offset is damped but not clamped
adjustedDragDistance_noClamp(dragDistance) ==
  IF dragDistance > 0 THEN 100 * dragDistance ELSE 10 * dragDistance

\* the translateY offset of dragMove, lines 64-69, in 1/100 px
adjustedDragDistance(dragDistance) ==
  IF dragDistance > 0
    THEN 100 * dragDistance
    ELSE Max(-innerHeight, 10 * dragDistance)

\* mutant: the opacity is not floored at 0
opacity_noFloor(dragDistance) ==
  IF dragDistance > 0 THEN innerHeight - 2 * Abs(dragDistance) ELSE OpacityOne

\* the overlay opacity of dragMove, lines 82-85, in 1/innerHeight
opacity(dragDistance) ==
  IF dragDistance > 0
    THEN Max(0, innerHeight - 2 * Abs(dragDistance))
    ELSE OpacityOne

\* mutant: the update does not spread the previous state
dragMoveUpdate_noSpread(prev, y, direction, t) ==
  [EmptyDragState EXCEPT
     !.currentY = y,
     !.direction = direction,
     !.totalDistance = prev.totalDistance + Abs(y - OrElse(prev.currentY, y)),
     !.totalTime = t - OrElse(prev.startTime, t)]

\* the functional update of dragMove, lines 73-79, applied to the latest state
dragMoveUpdate(prev, y, direction, t) ==
  [prev EXCEPT
     !.currentY = y,
     !.direction = direction,
     !.totalDistance = prev.totalDistance + Abs(y - OrElse(prev.currentY, y)),
     !.totalTime = t - OrElse(prev.startTime, t)]

\* dragMove(y), lines 61-91; c is the dragState its closure captured
dragMove(w, c, y) ==
  IF ~c.isDragging \/ c.startY = Null
    THEN w
    ELSE LET dragDistance == y - OrElse(c.startY, 0)
             direction == IF dragDistance > 0 THEN "down" ELSE "up"
         IN [w EXCEPT
               !.dragState = dragMoveUpdate(w.dragState, y, direction, w.now),
               !.overlayOpacity = opacity(dragDistance),
               !.transform = TranslateY(adjustedDragDistance(dragDistance)),
               !.rendered = TRUE,
               !.last.move = [passed |-> TRUE, dragDistance |-> dragDistance]]

\* velocity > fastCloseThreshold, lines 99 and 105, with
\* velocity = totalDistance / totalTime in IEEE arithmetic:
\* x / 0 is Infinity for x > 0, and 0 / 0 is NaN, which compares false.
\* For totalTime < 18 ms the rounded quotient compares as the exact one.
velocityExceeds(totalDistance, totalTime) ==
  IF totalTime = 0
    THEN totalDistance > 0
    ELSE totalDistance * MsPerSecond > fastCloseThreshold * totalTime

\* mutant: the close branch is not gated by the direction
decide_anyDirection(c) ==
  LET dragDistance == c.currentY - c.startY
      fast == velocityExceeds(c.totalDistance, c.totalTime)
  IN IF 2 * dragDistance > innerHeight \/ fast
       THEN "Close"
       ELSE IF c.direction = "up" /\ 2 * dragDistance < innerHeight /\ fast
              THEN "Reopen"
              ELSE "SnapBack"

\* mutant: the reopen branch does not test the velocity
decide_reopenSlow(c) ==
  LET dragDistance == c.currentY - c.startY
      fast == velocityExceeds(c.totalDistance, c.totalTime)
  IN IF (2 * dragDistance > innerHeight \/ fast) /\ c.direction = "down"
       THEN "Close"
       ELSE IF c.direction = "up" /\ 2 * dragDistance < innerHeight
              THEN "Reopen"
              ELSE "SnapBack"

\* the branch endDrag takes, lines 105-128
decide(c) ==
  LET dragDistance == c.currentY - c.startY
      fast == velocityExceeds(c.totalDistance, c.totalTime)
  IN IF (2 * dragDistance > innerHeight \/ fast) /\ c.direction = "down"
       THEN "Close"
       ELSE IF c.direction = "up" /\ 2 * dragDistance < innerHeight /\ fast
              THEN "Reopen"
              ELSE "SnapBack"

endDragGuard(c) ==
  c.isDragging /\ c.startY # Null /\ c.currentY # Null /\ c.startTime # Null

\* mutant: the overlay opacity is left as the drag set it
endDragReset_keepOpacity(w) == [w EXCEPT !.dragState = EmptyDragState]

\* the end of endDrag, lines 130-141
endDragReset(w) ==
  [w EXCEPT !.dragState = EmptyDragState, !.overlayOpacity = OpacityOne]

\* endDrag(), lines 94-142; c is the dragState its closure captured
endDrag(w, c) ==
  IF ~endDragGuard(c)
    THEN w
    ELSE LET d == decide(c)
         IN [endDragReset(w) EXCEPT
               !.isOpened = IF d = "Close" THEN FALSE
                            ELSE IF d = "Reopen" THEN TRUE ELSE w.isOpened,
               !.transition = "transform .3s ease",
               !.timeouts = Append(w.timeouts,
                                   IF d = "Close" THEN TransformOffscreen
                                                  ELSE TransformNone),
               !.rendered = TRUE,
               !.last.rel = [passed |-> TRUE, direction |-> c.direction,
                             far |-> 2 * (c.currentY - c.startY) > innerHeight,
                             fast |-> velocityExceeds(c.totalDistance, c.totalTime),
                             zeroTime |-> c.totalTime = 0,
                             decision |-> d,
                             setter |-> IF d = "Close" THEN "closed"
                                        ELSE IF d = "Reopen" THEN "open"
                                        ELSE "none"]]

\* --------------------------------------------------------- Sheet: effects
RemoveListener(listeners, l) == SelectSeq(listeners, LAMBDA x : x # l)

\* the passive effects of one commit: which effects have changed dependencies,
\* and the props and state their closures read (the listener effect reads
\* dragState only when dragState.isDragging, the opened effect reads isOpened)
Effects(opened, drag, w) ==
  [opened |-> opened, isOpened |-> opened /\ w.isOpened, drag |-> drag,
   snap |-> IF drag /\ w.dragState.isDragging THEN w.dragState ELSE EmptyDragState,
   due |-> FALSE]

MarkDue(q) == [i \in DOMAIN q |-> [q[i] EXCEPT !.due = TRUE]]
NoDue(q) == \A i \in DOMAIN q : ~q[i].due

\* the cleanup function the listener effect returned, lines 173-176
runCleanup(w) ==
  IF w.cleanup = <<>>
    THEN w
    ELSE [w EXCEPT
            !.mousemoveListeners = RemoveListener(w.mousemoveListeners, w.cleanup[1]),
            !.mouseupListeners = RemoveListener(w.mouseupListeners, w.cleanup[1]),
            !.cleanup = <<>>]

\* useEffect(..., [isOpened]), lines 26-42
openedEffect(w, e) ==
  [w EXCEPT
     !.overlayOpacity = IF e.isOpened THEN OpacityOne ELSE 0,
     !.overflow = IF e.isOpened THEN "hidden" ELSE "",
     !.transform = TransformNone,
     !.transition = "transform .3s ease",
     !.pending = IF w.overlayOpacity = (IF e.isOpened THEN OpacityOne ELSE 0)
                   THEN w.pending ELSE MarkDue(w.pending)]

\* useEffect(..., [dragState.isDragging]), lines 161-178
listenerEffect(w, e) ==
  IF e.snap.isDragging
    THEN [w EXCEPT
            !.mousemoveListeners = Append(w.mousemoveListeners, e.snap),
            !.mouseupListeners = Append(w.mouseupListeners, e.snap),
            !.cleanup = <<e.snap>>]
    ELSE w

\* React runs the cleanups of a commit's changed effects, then their bodies
runEffects(w, e) ==
  LET w1 == IF e.drag THEN runCleanup(w) ELSE w
      w2 == IF e.opened THEN openedEffect(w1, e) ELSE w1
  IN IF e.drag THEN listenerEffect(w2, e) ELSE w2

\* the re-render after a handler that set state: effects whose dependencies
\* changed since the previous render are committed as pending; the effects
\* of earlier commits are due, React runs them before it handles the next event
render(w0, w1) ==
  IF ~w1.rendered
    THEN w1
    ELSE LET opened == w1.isOpened # w0.isOpened
             drag == w1.dragState.isDragging # w0.dragState.isDragging
             q == MarkDue(w1.pending)
         IN [w1 EXCEPT !.pending = IF opened \/ drag
                                     THEN Append(q, Effects(opened, drag, w1))
                                     ELSE q]

\* setIsOpened(v) by the overlay or by the host
setIsOpened(w, v) ==
  IF w.isOpened = v
    THEN w
    ELSE [w EXCEPT !.isOpened = v, !.rendered = TRUE]

\* --------------------------------------------- Sheet: document listeners
RECURSIVE docHandleMouseMove(_, _, _)
\* the 'mousemove' listeners of the document, line 163, in attachment order
docHandleMouseMove(w, listeners, y) ==
  IF listeners = <<>>
    THEN w
    ELSE docHandleMouseMove(dragMove(w, Head(listeners), y), Tail(listeners), y)

RECURSIVE docHandleMouseUp(_, _)
\* the 'mouseup' listeners of the document, lines 164-168
docHandleMouseUp(w, listeners) ==
  IF listeners = <<>>
    THEN w
    ELSE LET w1 == endDrag(w, Head(listeners))
             w2 == [w1 EXCEPT
                      !.mousemoveListeners =
                         RemoveListener(w1.mousemoveListeners, Head(listeners)),
                      !.mouseupListeners =
                         RemoveListener(w1.mouseupListeners, Head(listeners))]
         IN docHandleMouseUp(w2, Tail(listeners))

\* a native event that has passed the content's handlers reaches the document
bubble(w0, w1) == [render(w0, w1) EXCEPT !.rendered = FALSE]

\* ---------------------------------------------------------- Sheet: actions
Start(op) == [World EXCEPT !.last = Event(op)]

Ready == NoDue(pending)

\* the accumulated distance is capped; and a gesture lasts longer than the
\* 10 ms of setTimeout, so the callback of the release before it has run when
\* a release schedules the next one
WithinBounds(w) ==
  /\ w.dragState.totalDistance <= MaxDist
  /\ w.timeouts # timeouts => timeouts = <<>>

Handle(w0, w1) ==
  /\ Ready
  /\ LET w2 == render(w0, w1) IN WithinBounds(w2) /\ Commit(w2)
  /\ UNCHANGED throttleVars
  /\ UNCHANGED portalVars

handleTouchStart ==
  \E y \in Positions :
    LET w0 == Start("press") IN Handle(w0, startDrag(w0, y))

handleTouchMove ==
  \E y \in Positions :
    LET w0 == Start("move") IN Handle(w0, dragMove(w0, dragState, y))

handleTouchEnd ==
  LET w0 == Start("release") IN Handle(w0, endDrag(w0, dragState))

handleMouseDown ==
  \E y \in Positions :
    LET w0 == Start("press") IN Handle(w0, startDrag(w0, y))

\* onMouseLeave={handleMouseUp}, line 196
handleMouseLeave ==
  LET w0 == Start("release") IN Handle(w0, endDrag(w0, dragState))

\* a mousemove over the content: handleMouseMove of line 154, then the
\* document's listeners
MouseMoveOnContent ==
  \E y \in Positions :
    LET w0 == Start("move")
        w1 == IF dragState.isDragging THEN dragMove(w0, dragState, y) ELSE w0
        w2 == bubble(w0, w1)
    IN Handle(w2, docHandleMouseMove(w2, w2.mousemoveListeners, y))

\* a mousemove elsewhere on the page: the document's listeners only
MouseMoveOnDocument ==
  \E y \in Positions :
    LET w0 == Start("move")
    IN Handle(w0, docHandleMouseMove(w0, w0.mousemoveListeners, y))

\* a mouseup over the content: handleMouseUp of line 158, then the document's
MouseUpOnContent ==
  LET w0 == Start("release")
      w1 == endDrag(w0, dragState)
      w2 == bubble(w0, w1)
  IN Handle(w2, docHandleMouseUp(w2, w2.mouseupListeners))

\* a mouseup elsewhere on the page: the document's listeners only
MouseUpOnDocument ==
  LET w0 == Start("release")
  IN Handle(w0, docHandleMouseUp(w0, w0.mouseupListeners))

\* onClick of the overlay, line 185
OverlayClick ==
  LET w0 == Start("other") IN Handle(w0, setIsOpened(w0, FALSE))

\* the host changes the flag it owns
HostSetIsOpened ==
  \E v \in BOOLEAN :
    /\ v # isOpened
    /\ LET w0 == Start("other") IN Handle(w0, setIsOpened(w0, v))

\* the scheduler runs the oldest pending passive effects
RunEffects ==
  /\ pending # <<>>
  /\ LET w0 == [World EXCEPT !.pending = Tail(pending), !.last = Event("other")]
     IN Commit(runEffects(w0, pending[1]))
  /\ UNCHANGED throttleVars
  /\ UNCHANGED portalVars

\* the callback of setTimeout(..., 10), lines 109-111, 117-119, 124-126
Timeout ==
  /\ timeouts # <<>>
  /\ Commit([World EXCEPT !.transform = Head(timeouts), !.timeouts = Tail(timeouts),
                          !.last = Event("other")])
  /\ UNCHANGED throttleVars
  /\ UNCHANGED portalVars

\* time passes
Tick ==
  /\ now + TickMs <= MaxTime
  /\ Commit([World EXCEPT !.now = now + TickMs, !.last = Event("other")])
  /\ UNCHANGED throttleVars
  /\ UNCHANGED portalVars

ThrottleIdle == lastCall = 0 /\ delay = 0 /\ clock = 0 /\ calls = <<>>

PortalIdle == body = <<>> /\ requests = <<>>

Init ==
  /\ dragState = EmptyDragState
  /\ overlayOpacity = 0
  /\ isOpened \in BOOLEAN
  /\ transform = TransformNone
  /\ transition = ""
  /\ overflow = ""
  /\ timeouts = <<>>
  /\ mousemoveListeners = <<>>
  /\ mouseupListeners = <<>>
  /\ cleanup = <<>>
  /\ pending = <<[opened |-> TRUE, isOpened |-> isOpened, drag |-> TRUE,
                  snap |-> EmptyDragState, due |-> FALSE]>>
  /\ now = 1
  /\ last = Event("other")
  /\ ThrottleIdle
  /\ PortalIdle

Next ==
  \/ handleTouchStart
  \/ handleTouchMove
  \/ handleTouchEnd
  \/ handleMouseDown
  \/ handleMouseLeave
  \/ MouseMoveOnContent
  \/ MouseMoveOnDocument
  \/ MouseUpOnContent
  \/ MouseUpOnDocument
  \/ OverlayClick
  \/ HostSetIsOpened
  \/ RunEffects
  \/ Timeout
  \/ Tick

Spec == Init /\ [][Next]_vars

\* ---------------------------------------------------------------- throttle
SheetIdle ==
  /\ dragState = EmptyDragState
  /\ overlayOpacity = 0
  /\ isOpened = FALSE
  /\ transform = TransformNone
  /\ transition = ""
  /\ overflow = ""
  /\ timeouts = <<>>
  /\ mousemoveListeners = <<>>
  /\ mouseupListeners = <<>>
  /\ cleanup = <<>>
  /\ pending = <<>>
  /\ now = 1
  /\ last = Event("other")

\* throttle(callback, delay), lines 1-2: the closure starts with lastCall = 0;
\* the clock is whatever the host's clock reads when the wrapper is made
InitThrottle ==
  /\ SheetIdle
  /\ lastCall = 0
  /\ delay \in 0..MaxDelay
  /\ clock \in 0..MaxDelay
  /\ calls = <<>>
  /\ PortalIdle

\* the condition of line 5
throttleOpen(t, lc, d) == t - lc >= d

\* one call of the wrapped function, lines 3-9
ThrottleCall ==
  /\ Len(calls) < MaxCalls
  /\ LET invoked == throttleOpen(clock, lastCall, delay)
     IN /\ lastCall' = IF invoked THEN clock ELSE lastCall
        /\ calls' = Append(calls, [t |-> clock, invoked |-> invoked])
  /\ UNCHANGED <<delay, clock>>
  /\ UNCHANGED sheetVars
  /\ UNCHANGED portalVars

\* the clock read by new Date().getTime() advances
ThrottleTick ==
  /\ clock < MaxClock
  /\ clock' = clock + 1
  /\ UNCHANGED <<lastCall, delay, calls>>
  /\ UNCHANGED sheetVars
  /\ UNCHANGED portalVars

NextThrottle ==
  \/ ThrottleCall
  \/ ThrottleTick

SpecThrottle == InitThrottle /\ [][NextThrottle]_vars


\* --------------------------------------------------------------- withPortal
\* the components wrapped by withPortal that the host renders
Components == {"Sheet", "A", "B"}

\* document.querySelector('#iosify'), line 5: the first element of the
\* document with that id, or Null
RECURSIVE querySelector(_, _)
querySelector(b, i) ==
  IF i > Len(b) THEN Null
  ELSE IF b[i].id = "iosify" THEN b[i].node ELSE querySelector(b, i + 1)

\* mutant: the container is created without looking for an existing one
createDiv_always(b) ==
  LET div == Len(b) + 1
  IN [body |-> Append(b, [node |-> div, id |-> "iosify"]), div |-> div]

\* createDiv(), lines 4-16: the document after the call and the element returned
createDiv(b) ==
  LET found == querySelector(b, 1)
  IN IF found = Null
       THEN LET div == Len(b) + 1
            IN [body |-> Append(b, [node |-> div, id |-> "iosify"]), div |-> div]
       ELSE [body |-> b, div |-> found]

\* the host page before the first render: its own elements, none with the id
InitPortal ==
  /\ SheetIdle
  /\ ThrottleIdle
  /\ body \in {<<>>, <<[node |-> 1, id |-> "root"]>>}
  /\ requests = <<>>

\* a render of a wrapped component, lines 19-23
PortalRender ==
  \E c \in Components :
    /\ Len(requests) < MaxRequests
    /\ LET r == createDiv(body)
       IN /\ body' = r.body
          /\ requests' = Append(requests, [component |-> c, container |-> r.div,
                                           created |-> r.body # body])
    /\ UNCHANGED sheetVars
    /\ UNCHANGED throttleVars

NextPortal ==
  \/ PortalRender

SpecPortal == InitPortal /\ [][NextPortal]_vars

\* ------------------------------------------------------------------ claims
\* the displacement and the velocity test of a release, from the session the
\* release reads (cross-multiplied: distance / (ms / 1000) > 500)
NetDisplacement(c) == c.currentY - c.startY
OverThreshold(c) == 2 * NetDisplacement(c) > innerHeight
OverVelocity(c) == c.totalDistance * MsPerSecond > fastCloseThreshold * c.totalTime

\* C1: a release that passes endDrag's guard closes (calls the setter with
\* closed, the flag becomes closed) exactly when the direction is down and
\* the net displacement is above innerHeight / 2 or the average velocity is
\* above 500 px/s.
C1_CloseIffDownAndFarOrFast ==
  [][last'.rel.passed =>
       LET close == /\ dragState.direction = "down"
                    /\ (OverThreshold(dragState) \/ OverVelocity(dragState))
       IN /\ (last'.rel.decision = "Close") <=> close
          /\ (last'.rel.setter = "closed") <=> close
          /\ close => ~isOpened']_vars

C1_Witness ==
  /\ last.rel.passed
  /\ last.rel.decision = "Close"
  /\ last.rel.fast /\ ~last.rel.far /\ ~last.rel.zeroTime
  /\ ~isOpened

\* C2: a release whose direction is up never closes; it reopens (setter called
\* with open) exactly when the net displacement is below innerHeight / 2 and
\* the velocity is above 500 px/s; otherwise it snaps back, and a snap back
\* calls no setter and leaves the flag as it was.
C2_UpReopensIffFast ==
  [][(last'.rel.passed /\ dragState.direction = "up") =>
       LET reopen == /\ 2 * NetDisplacement(dragState) < innerHeight
                     /\ OverVelocity(dragState)
       IN /\ last'.rel.decision # "Close"
          /\ (last'.rel.decision = "Reopen") <=> reopen
          /\ (last'.rel.decision = "SnapBack") <=> ~reopen
          /\ reopen => (last'.rel.setter = "open" /\ isOpened')
          /\ ~reopen => (last'.rel.setter = "none" /\ isOpened' = isOpened)]_vars

C2_Witness ==
  /\ last.rel.passed
  /\ last.rel.direction = "up"
  /\ last.rel.decision = "Reopen"
  /\ ~last.rel.zeroTime
  /\ isOpened

\* C3: a release with totalTime = 0 and a net displacement not above
\* innerHeight / 2 snaps back, whatever the accumulated distance.
C3_ZeroTimeSnapsBack ==
  [][(last'.rel.passed /\ dragState.totalTime = 0 /\ ~OverThreshold(dragState))
       => last'.rel.decision = "SnapBack"]_vars

\* C4: a release event of any kind that follows a press leaves the session
\* empty.
C4_ReleaseEndsSession ==
  [][(last'.op = "release" /\ dragState.isDragging)
       => dragState' = EmptyDragState]_vars

\* C5: right after an endDrag that passed its guard the session has the
\* empty-state values and the overlay opacity is 1, in every branch.
C5_EndDragResets ==
  last.rel.passed => (dragState = EmptyDragState /\ overlayOpacity = OpacityOne)

C5_Witness ==
  /\ last.rel.passed
  /\ last.rel.decision = "SnapBack"
  /\ dragState = EmptyDragState
  /\ overlayOpacity = OpacityOne

\* C6: a move or end event delivered while no session is active changes
\* neither the session, the overlay opacity, the content offset nor the flag.
C6_StrayEventChangesNothing ==
  [][(last'.op \in {"move", "release"}
        /\ (~dragState.isDragging \/ dragState.startY = Null))
       => UNCHANGED <<dragState, overlayOpacity, transform, isOpened>>]_vars

\* C7: within a session every move after the first adds exactly the absolute
\* difference to the previous position to the accumulated distance.
C7_MoveAddsAbsoluteDelta ==
  [][(last'.move.passed /\ dragState.isDragging /\ dragState.currentY # Null)
       => dragState'.totalDistance =
            dragState.totalDistance + Abs(dragState'.currentY - dragState.currentY)]_vars

C9_OpacityRangeAndMonotone ==
  [][last'.move.passed =>
       LET d == last'.move.dragDistance
       IN /\ overlayOpacity' \in 0..OpacityOne
          /\ d <= 0 => overlayOpacity' = OpacityOne
          /\ 2 * d >= innerHeight => overlayOpacity' = 0
          /\ (d > 0 /\ 2 * d < innerHeight) => overlayOpacity' = OpacityOne - 2 * d
          /\ (last.move.passed /\ last.move.dragDistance <= d)
               => overlayOpacity' <= overlayOpacity]_vars

C9_Witness ==
  /\ last.move.passed
  /\ 2 * last.move.dragDistance = innerHeight
  /\ overlayOpacity = 0

\* the last call before call i that invoked the action
RECURSIVE LastInvoked(_)
LastInvoked(i) ==
  IF i = 0 THEN 0
  ELSE IF calls[i].invoked THEN i ELSE LastInvoked(i - 1)

\* C10: the first call of the wrapped function invokes the action, and a
\* later call invokes it exactly when at least delay has elapsed since the
\* last call that invoked it.
C10_ThrottleFirstAndInterval ==
  \A i \in 1..Len(calls) :
    IF LastInvoked(i - 1) = 0
      THEN calls[i].invoked
      ELSE calls[i].invoked <=> (calls[i].t - calls[LastInvoked(i - 1)].t >= delay)

\* the elements of the document with id 'iosify'
Containers == {i \in DOMAIN body : body[i].id = "iosify"}

\* C11: after any number of createDiv calls the document holds exactly one
\* element with id 'iosify'; the first call created and attached it and every
\* later call returned that same element and created nothing.
C11_OneContainer ==
  requests # <<>> =>
    /\ Cardinality(Containers) = 1
    /\ requests[1].created
    /\ \A i \in DOMAIN requests :
         /\ requests[i].container = requests[1].container
         /\ \E j \in Containers : body[j].node = requests[i].container
         /\ i > 1 => ~requests[i].created

C11_Witness ==
  /\ Len(requests) = MaxRequests
  /\ Cardinality(Containers) = 1
  /\ Len(body) = 2
  /\ requests[1].component # requests[MaxRequests].component

\* C12: the first move of a session (the press left currentY absent) makes the
\* accumulated distance the full magnitude of the move, |p1 - p0|.
C12_FirstMoveAddsFullMagnitude ==
  [][(last'.move.passed /\ dragState.isDragging /\ dragState.currentY = Null
        /\ dragState'.isDragging)
       => dragState'.totalDistance = Abs(dragState'.currentY - dragState.startY)]_vars

\* C13: whenever a session is active and has a current position, the
\* direction is down exactly when currentY - startY > 0 and up otherwise.
C13_DirectionFollowsNet ==
  (dragState.isDragging /\ dragState.currentY # Null) =>
    /\ (dragState.direction = "down") <=> (NetDisplacement(dragState) > 0)
    /\ (dragState.direction = "up") <=> (NetDisplacement(dragState) <= 0)

\* the offset the resistance function gives the session's net displacement
SessionOffset(c) == TranslateY(adjustedDragDistance(NetDisplacement(c)))

\* C14: a deferred callback of an earlier release that fires while a newer
\* session is active and has moved leaves the content offset what the
\* resistance function makes of the session's net displacement.
C14_TimeoutKeepsOffset ==
  [][(/\ timeouts # <<>>
      /\ timeouts' = Tail(timeouts)
      /\ dragState.isDragging
      /\ dragState.currentY # Null
      /\ transform = SessionOffset(dragState))
       => transform' = SessionOffset(dragState')]_vars

\* no session is active, every committed effect has run, no callback is pending
Quiescent == ~dragState.isDragging /\ pending = <<>> /\ timeouts = <<>>

\* C15, for the interleaving of a deferred callback with a change of the flag:
\* when the last pending callback fires and leaves the system quiescent with
\* the flag open, the content transform is neutral and scrolling is locked.
C15_QuiescentOpenMatches ==
  [][(/\ timeouts # <<>>
      /\ timeouts' = Tail(timeouts)
      /\ Quiescent'
      /\ isOpened')
       => (transform' = TransformNone /\ overflow' = "hidden")]_vars

\* C16, for Close: once the deferred callback of a closing release has moved
\* the content off-screen, the visibility effect of that release leaves it
\* off-screen: off-screen is the final offset.
C16_CloseEndsOffscreen ==
  [][(/\ ~dragState.isDragging
      /\ ~isOpened
      /\ timeouts = <<>>
      /\ transform = TransformOffscreen
      /\ pending # <<>>
      /\ pending' = Tail(pending)
      /\ pending[1].opened /\ ~pending[1].isOpened)
       => transform' = TransformOffscreen]_vars

\* C17, for the host closing the sheet during a drag: the transition that
\* startDrag disabled stays disabled while the session is active, also when
\* the visibility effect of the flag change runs.
C17_TransitionStaysDisabled ==
  [][(/\ dragState.isDragging /\ dragState'.isDragging
      /\ transition = "unset"
      /\ pending # <<>>
      /\ pending' = Tail(pending)
      /\ pending[1].opened /\ ~pending[1].drag /\ ~pending[1].isOpened)
       => transition' = "unset"]_vars

\* C18: the document never has more than one mousemove and one mouseup
\* listener, and once the effects have run it has them exactly when a session
\* is active.
C18_ListenersMatchSession ==
  /\ Len(mousemoveListeners) <= 1
  /\ Len(mouseupListeners) <= 1
  /\ pending = <<>> =>
       /\ (mousemoveListeners # <<>>) <=> dragState.isDragging
       /\ (mouseupListeners # <<>>) <=> dragState.isDragging

\* C19: a press, from whatever session state, leaves exactly startY = the
\* position pressed, currentY absent, startTime = now, isDragging, no
\* direction, and zero accumulated distance and time.
C19_StartDragClobbers ==
  [][last'.op = "press" =>
       dragState' = [startY |-> last'.press, currentY |-> Null, startTime |-> now,
                     isDragging |-> TRUE, direction |-> "null",
                     totalDistance |-> 0, totalTime |-> 0]]_vars

C19_Witness ==
  /\ last.op = "press"
  /\ last.press = 11
  /\ dragState.startY = 11
  /\ dragState.totalDistance = 0
  /\ mousemoveListeners # <<>>
  /\ mousemoveListeners[1].startY = 0

\* C20: in every state startY is present exactly when startTime is present
\* and exactly when the session is active; a move event changes none of the
\* three and never lowers the accumulated distance.
C20_SessionFieldsTogether ==
  /\ [](/\ (dragState.startY # Null) <=> dragState.isDragging
        /\ (dragState.startTime # Null) <=> dragState.isDragging)
  /\ [][last'.op = "move" =>
          /\ dragState'.startY = dragState.startY
          /\ dragState'.startTime = dragState.startTime
          /\ dragState'.isDragging = dragState.isDragging
          /\ dragState'.totalDistance >= dragState.totalDistance]_vars

C20_Witness ==
  /\ last.op = "move"
  /\ last.move.passed
  /\ dragState.isDragging
  /\ dragState.startY # Null
  /\ dragState.startTime # Null
  /\ dragState.totalDistance = MaxDist

====
